---- MODULE Spec2Model ----
(***************************************************************************)
(* The scan engine of src/hooks/useIPScanner.tsx: the zustand store        *)
(* (useScannerStore) and the handlers of the useIPScanner hook             *)
(* (startScan, stopScan, reStart, testIPs).                                *)
(*                                                                         *)
(* JavaScript runs one handler at a time, up to its next await. A call of  *)
(* startScan or reStart is an async task; the only await at which another  *)
(* handler can run is the request of one probe attempt (line 273).  The    *)
(* store is written synchronously, so a subscriber also sees the store     *)
(* between two writes of one handler: the model keeps two such points as   *)
(* states of their own (after reset() of startScan, and after testIPs has  *)
(* returned, before setToIdle()), during which no other handler runs.      *)
(***************************************************************************)
EXTENDS Integers, Sequences, FiniteSets, Bags, TLC

\* ------------------------------------------------------------------ bounds
\* Longest candidate list (allIps) of the model.
MaxLen == 2
\* Calls of startScan/reStart that are in flight at the same time.
MaxTasks == 2
\* Calls of reStart since the last reset() (reStart resets nothing, so the
\* attempt counter and the store grow with every call).
MaxReStarts == 1
\* Largest maxIPCount setting.
MaxCount == 2
\* Calls of stopScan in a row while the store is idle and no call of
\* startScan/reStart is in flight.
MaxIdleStops == 2

\* --------------------------------------------------------------- constants
MAX_TRIES == 3
TRY_CHARS == <<"", "|", "/", "-", "\\">>
\* The latency floor of the admission test (latency > 50).
LATENCY_FLOOR == 50
\* "In each search, only 150 IPs are evaluated" (the toast of showToast).
IpsPerSearch == 150

\* ------------------------------------------------------------------ inputs
\* The candidate addresses the caller can supply (the allIps prop).
Address(k) == "10.0.0." \o ToString(k)
AllIpsOfLen(n) == [k \in 1..n |-> Address(k)]

\* The ipRegex settings of the model: none, one valid pattern, one pattern
\* that new RegExp() rejects with a SyntaxError.
Patterns == {"", "[23]$", "("}
InvalidPattern(p) == p = "("
\* new RegExp(p).test(el) for the valid patterns of the model.
RegExpTest(p, el) ==
    CASE p = "[23]$" -> el \in {Address(2), Address(3)}
      [] OTHER -> TRUE

\* maxLatency settings (ms) and the time one probe attempt can take (ms).
MaxLatencies == {50, 52}
Durations == {50, 53}
\* How one attempt ends: a response, or a thrown value with this name
\* ("NonError": the thrown value is no instance of Error).
Outcomes == {"response", "AbortError", "TypeError", "OtherError", "NonError"}

\* ------------------------------------------------------------------- state
VARIABLES
    \* the store (ScannerStore)
    testNo, validIPs, currentIP, tryChar, currentLatency, color, scanState,
    \* the settings (persisted part of the store) and the allIps prop
    maxIPCount, maxLatency, ipRegex, allIps,
    \* the calls of startScan/reStart in flight, as a bag of their local
    \* states (two calls in the same local state are interchangeable)
    tasks,
    \* reStart calls since the last reset(); bounds the model only
    restarts,
    \* TRUE while the call started by the last startScan() is the only one
    \* that ran since that call's reset()
    solo,
    \* stopScan() calls made in a row with the store idle and no call of
    \* startScan/reStart in flight
    idleStops

store == <<testNo, validIPs, currentIP, tryChar, currentLatency, color, scanState>>
settings == <<maxIPCount, maxLatency, ipRegex, allIps>>
vars == <<store, settings, tasks, restarts, solo, idleStops>>

\* The local state of a call: where it stands (pc), and inside testIPs the
\* list, the candidate (pos), the attempt (i), testCount, and the time since
\* startTime (elapsed).
\*   "reset"    startScan has run reset() and nothing else yet
\*   "probing"  testIPs awaits the request of attempt i of ipList[pos]
\*   "returned" testIPs has returned; setToIdle() is still to run
\* stale records history only, and only in SpecStale: a startScan() has run
\* reset() since testIPs began the candidate it is probing.
NewTask(pc, ipList, pos) ==
    [pc |-> pc, ipList |-> ipList, pos |-> pos, i |-> 0, testCount |-> 0, elapsed |-> 0,
     stale |-> FALSE]

InFlight == BagToSet(tasks)
Probing == {T \in InFlight : T.pc = "probing"}
Replace(T, U) == (tasks (-) SetToBag({T})) (+) SetToBag({U})
Remove(T) == tasks (-) SetToBag({T})
Add(U) == tasks (+) SetToBag({U})
\* The calls in flight, each marked stale.
MarkStale ==
    LET S == {[T EXCEPT !.stale = TRUE] : T \in InFlight}
    IN  [U \in S |-> CopiesIn(U, tasks) + CopiesIn([U EXCEPT !.stale = FALSE], tasks)]

\* ----------------------------------------------------------------- helpers
Range(s) == {s[k] : k \in DOMAIN s}

\* randomizeElements(ips): some permutation of ips.
Perms(s) ==
    {p \in [1..Len(s) -> Range(s)] :
        \A a, b \in 1..Len(s) : p[a] = p[b] => a = b}
randomizeElements(ips) == Perms(ips)

\* allIps.filter((el) => new RegExp(state.ipRegex).test(el)), or allIps.
\* new RegExp() runs once per element, so it throws only on a non-empty list.
FilterThrows == ipRegex # "" /\ allIps # <<>> /\ InvalidPattern(ipRegex)
MatchesIpRegex(el) == RegExpTest(ipRegex, el)
FilteredIps ==
    IF ipRegex # "" THEN SelectSeq(allIps, MatchesIpRegex) ELSE allIps

\* Array.prototype.sort((a, b) => a.latency - b.latency): stable.
RECURSIVE InsertSorted(_, _)
InsertSorted(arr, x) ==
    IF arr = <<>> THEN <<x>>
    ELSE IF arr[Len(arr)].latency - x.latency > 0
         THEN Append(InsertSorted(SubSeq(arr, 1, Len(arr) - 1), x), arr[Len(arr)])
         ELSE Append(arr, x)
RECURSIVE SortByLatency(_)
SortByLatency(arr) ==
    IF arr = <<>> THEN <<>>
    ELSE InsertSorted(SortByLatency(SubSeq(arr, 1, Len(arr) - 1)), arr[Len(arr)])

\* addValidIP(validIP): append, then sort.
addValidIP_NoSort(arr, validIP) == Append(arr, validIP)
addValidIP(arr, validIP) == SortByLatency(Append(arr, validIP))

\* reset(): the value it gives validIPs.
reset_KeepsValidIPs(arr) == arr
reset_validIPs(arr) == <<>>

\* The catch of one attempt: which outcomes add to testCount.
Counts_OnlyAbortExcluded(outcome) == outcome # "AbortError"
Counts(outcome) ==
    \/ outcome = "response"
    \/ outcome \notin {"NonError", "AbortError", "TypeError"}

\* Math.floor(elapsed / n).
FloorDiv(elapsed, n) == elapsed \div n

\* The admission test of line 298.
Admits_FloorIncluded(testCount, latency) ==
    testCount = MAX_TRIES /\ latency <= maxLatency /\ latency >= LATENCY_FLOOR
Admits(testCount, latency) ==
    testCount = MAX_TRIES /\ latency <= maxLatency /\ latency > LATENCY_FLOOR

\* The break test of lines 305-310, on the store after the admission.
Breaks_CapExceeded(state, count) == state # "scanning" \/ count > maxIPCount
Breaks_CapOnly(state, count) == count >= maxIPCount
Breaks(state, count) == state # "scanning" \/ count >= maxIPCount

\* stopScan(): the state it moves to from `state`.
stopScan_StraightToIdle(state) == "idle"
stopScan_AlwaysStopping(state) == "stopping"
stopScan_state(state) == IF state = "scanning" THEN "stopping" ELSE "idle"

\* Times below are in 1/100 ms, so that the factors 1.5, 1.2 and their
\* products are whole numbers.
\* multiply (line 246), times 10.
multiply(L) == IF L <= 500 THEN 15 ELSE IF L <= 1000 THEN 12 ELSE 10

\* The value of `timeout` that setTimeout of attempt i reads (line 252): the
\* assignment of line 247 for attempt 0, and for a later attempt what the
\* attempt before it assigned (line 259 in attempt 0, line 263 after it).
TimerTimeout(L, i) ==
    CASE i = 0 -> 15 * multiply(L) * L
      [] i = 1 -> 10 * multiply(L) * L
      [] OTHER -> 12 * multiply(L) * L

\* The factor of maxLatency in TimerTimeout(L, i), times 100.
TimerFactor(L, i) == TimerTimeout(L, i) \div L

\* Math.trunc(timeout), the delay of the timer that calls controller.abort().
\* The numbers are IEEE doubles: a factor that is no multiple of 1/4 (1.2,
\* 1.44, 1.8) is rounded, so a product that is whole in exact arithmetic can
\* come out just below it (1.2 * 1.5 * 400 is 719.9999999999999) and is then
\* truncated to one less.
AbortTimers(L, i) ==
    LET t == TimerTimeout(L, i)
        whole == t \div 100
    IN  IF t % 100 = 0 /\ TimerFactor(L, i) % 25 # 0
        THEN {100 * (whole - 1), 100 * whole}
        ELSE {100 * whole}

\* The value of `timeout` handed to axiosWithSNI in attempt i (lines 259,
\* 263, 272), in exact arithmetic.
RequestTimeout(L, i) ==
    IF i = 0 THEN 10 * multiply(L) * L ELSE 12 * multiply(L) * L

\* No handler is part-way through its synchronous run.
NoneRunning == \A T \in InFlight : T.pc = "probing"

\* The store is idle and no call of startScan/reStart is in flight.
NoScanActive == scanState = "idle" /\ tasks = EmptyBag

\* -------------------------------------------------------------------- Init
\* The store of initialState, any settings, no call in flight.
InitStore ==
    /\ testNo = 0
    /\ validIPs = <<>>
    /\ currentIP = ""
    /\ tryChar = ""
    /\ currentLatency = 0
    /\ color = "red"
    /\ scanState = "idle"
    /\ tasks = EmptyBag
    /\ restarts = 0
    /\ solo = FALSE
    /\ idleStops = 0

Init ==
    /\ InitStore
    /\ maxIPCount \in 1..MaxCount
    /\ maxLatency \in MaxLatencies
    /\ ipRegex \in Patterns
    /\ allIps \in {AllIpsOfLen(n) : n \in 0..MaxLen}

\* ----------------------------------------------------------------- actions
\* testIPs(ipList) up to its first await, for a call whose other calls in
\* flight are `others`: the first candidate's increaseTestNo() and the
\* dispatch of attempt 0, or the return of an empty loop.
EnterLoop(others, ipList) ==
    IF ipList = <<>>
    THEN /\ tasks' = others (+) SetToBag({NewTask("returned", ipList, 0)})
         /\ UNCHANGED <<testNo, currentIP, tryChar, currentLatency, color>>
    ELSE /\ tasks' = others (+) SetToBag({NewTask("probing", ipList, 1)})
         /\ testNo' = testNo + 1
         /\ currentIP' = ipList[1]
         /\ tryChar' = TRY_CHARS[1]
         /\ color' = "red"
         /\ currentLatency' = 0

\* startScan(), its first statement: reset(). The calls already in flight
\* are `others`.
StartScanResetBeside(others) ==
    /\ NoneRunning
    /\ BagCardinality(tasks) < MaxTasks
    /\ testNo' = 0
    /\ validIPs' = reset_validIPs(validIPs)
    /\ currentIP' = ""
    /\ tryChar' = ""
    /\ currentLatency' = 0
    /\ color' = "red"
    /\ scanState' = "idle"
    /\ tasks' = others (+) SetToBag({NewTask("reset", <<>>, 0)})
    /\ restarts' = 0
    /\ solo' = (tasks = EmptyBag)
    /\ idleStops' = 0
    /\ UNCHANGED settings

StartScanReset == StartScanResetBeside(tasks)

\* startScan(), from the filter to the first await of testIPs, when
\* randomizeElements returns ipList.
StartScanWith(T, ipList) ==
    /\ T \in InFlight
    /\ T.pc = "reset"
    /\ \/ /\ FilterThrows
          /\ tasks' = Remove(T)
          /\ UNCHANGED store
       \/ /\ ~FilterThrows
          /\ scanState' = "scanning"
          /\ EnterLoop(Remove(T), ipList)
          /\ UNCHANGED validIPs
    /\ UNCHANGED <<settings, restarts, solo, idleStops>>

StartScanRun ==
    \E T \in InFlight, ipList \in randomizeElements(FilteredIps) : StartScanWith(T, ipList)

\* reStart(): the "search deeper" button of the toast.
ReStart ==
    /\ NoneRunning
    /\ BagCardinality(tasks) < MaxTasks
    /\ restarts < MaxReStarts
    /\ restarts' = restarts + 1
    /\ solo' = FALSE
    /\ idleStops' = 0
    /\ \/ /\ FilterThrows
          /\ UNCHANGED <<store, tasks>>
       \/ /\ ~FilterThrows
          /\ scanState' = "scanning"
          /\ \E ipList \in randomizeElements(FilteredIps) : EnterLoop(tasks, ipList)
          /\ UNCHANGED validIPs
    /\ UNCHANGED settings

\* stopScan() with reset() in the place of setToIdle().
StopScan_ResetsWhenNotScanning ==
    /\ NoneRunning
    /\ (NoScanActive => idleStops < MaxIdleStops)
    /\ scanState' = stopScan_state(scanState)
    /\ IF scanState = "scanning"
       THEN UNCHANGED <<testNo, validIPs, currentIP, tryChar, currentLatency, color>>
       ELSE /\ testNo' = 0 /\ validIPs' = <<>> /\ currentIP' = ""
            /\ tryChar' = "" /\ currentLatency' = 0 /\ color' = "red"
    /\ idleStops' = IF NoScanActive THEN idleStops + 1 ELSE idleStops
    /\ UNCHANGED <<settings, tasks, restarts, solo>>

\* stopScan().
StopScan ==
    /\ NoneRunning
    /\ (NoScanActive => idleStops < MaxIdleStops)
    /\ scanState' = stopScan_state(scanState)
    /\ tryChar' = IF scanState = "scanning" THEN tryChar ELSE ""
    /\ idleStops' = IF NoScanActive THEN idleStops + 1 ELSE idleStops
    /\ UNCHANGED <<testNo, validIPs, currentIP, currentLatency, color>>
    /\ UNCHANGED <<settings, tasks, restarts, solo>>

\* One attempt of the call in local state T ends after d ms, counted for
\* testCount or not; the loop runs on to its next await (the next attempt,
\* or the first attempt of the next candidate) or returns.
AttemptEnds(T, counted, d) ==
    LET ip == T.ipList[T.pos]
        testCount == T.testCount + (IF counted THEN 1 ELSE 0)
        elapsed == T.elapsed + d
    IN
    /\ NoneRunning
    /\ T \in Probing
    /\ IF T.i + 1 < MAX_TRIES
       THEN \* the dispatch of the next attempt of the same candidate
            /\ tasks' = Replace(T, [T EXCEPT !.i = T.i + 1, !.testCount = testCount,
                                             !.elapsed = elapsed])
            /\ currentIP' = ip
            /\ tryChar' = TRY_CHARS[T.i + 2]
            /\ color' = "green"
            /\ currentLatency' = FloorDiv(elapsed, T.i + 2)
            /\ UNCHANGED <<testNo, validIPs, scanState>>
       ELSE LET latency == FloorDiv(elapsed, MAX_TRIES)
                newIPs == IF Admits(testCount, latency)
                          THEN addValidIP(validIPs, [ip |-> ip, latency |-> latency])
                          ELSE validIPs
            IN
            /\ validIPs' = newIPs
            /\ IF Breaks(scanState, Len(newIPs)) \/ T.pos = Len(T.ipList)
               THEN /\ tasks' = Replace(T, NewTask("returned", T.ipList, T.pos))
                    /\ UNCHANGED <<testNo, currentIP, tryChar, currentLatency, color>>
               ELSE /\ tasks' = Replace(T, NewTask("probing", T.ipList, T.pos + 1))
                    /\ testNo' = testNo + 1
                    /\ currentIP' = T.ipList[T.pos + 1]
                    /\ tryChar' = TRY_CHARS[1]
                    /\ color' = "red"
                    /\ currentLatency' = 0
            /\ UNCHANGED scanState
    /\ UNCHANGED <<settings, restarts, solo, idleStops>>

\* The attempt ends with `outcome`: a response, or a thrown value.
Attempt(T, outcome, d) == AttemptEnds(T, Counts(outcome), d)

\* Some attempt of some call ends, in one of the ways it can (outcomes that
\* count alike make the same step).
SomeAttempt ==
    \E T \in InFlight, counted \in {Counts(outcome) : outcome \in Outcomes}, d \in Durations :
        AttemptEnds(T, counted, d)

\* The continuation of startScan/reStart after `await testIPs(...)`:
\* setToIdle().
SetToIdle(T) ==
    /\ T \in InFlight
    /\ T.pc = "returned"
    /\ scanState' = "idle"
    /\ tryChar' = ""
    /\ tasks' = Remove(T)
    /\ UNCHANGED <<testNo, validIPs, currentIP, currentLatency, color>>
    /\ UNCHANGED <<settings, restarts, solo, idleStops>>

Next ==
    \/ StartScanReset
    \/ StartScanRun
    \/ ReStart
    \/ StopScan
    \/ SomeAttempt
    \/ \E T \in InFlight : SetToIdle(T)

Spec == Init /\ [][Next]_vars

\* What the runtime does without anybody's doing: as long as a call of
\* startScan/reStart is in flight one of them takes its next step, because
\* every request of an attempt ends (a response, a failure, or the abort of
\* its timer) and a handler that has started runs on to its next await.
SystemStep ==
    \/ SomeAttempt
    \/ \E T \in InFlight : SetToIdle(T)
    \/ StartScanRun

Fairness == WF_vars(SystemStep)

\* The behaviours with the fairness above, for the settings that keep one
\* result (maxIPCount = 1).
InitOneResult == Init /\ maxIPCount = 1

FairSpec == InitOneResult /\ [][Next]_vars /\ Fairness

\* Only startScan() is ever called: no stopScan(), no reStart().
NextStartOnly ==
    \/ StartScanReset
    \/ StartScanRun
    \/ SomeAttempt
    \/ \E T \in InFlight : SetToIdle(T)

SpecStartOnly == Init /\ [][NextStartOnly]_vars

\* An exception escapes testIPs while the call in local state T is inside
\* it (thrown by a statement outside the try of lines 271-279, such as a
\* store subscriber run by dispatch): the catch of startScan/reStart logs it
\* and the call ends there.
ScanThrows(T) ==
    /\ NoneRunning
    /\ T \in Probing
    /\ tasks' = Remove(T)
    /\ UNCHANGED <<store, settings, restarts, solo, idleStops>>

NextThrow ==
    \/ Next
    \/ \E T \in InFlight : ScanThrows(T)

SpecThrow == Init /\ [][NextThrow]_vars

\* One startScan() at a time over a list one longer than the 150 of the
\* toast, shuffled to the order it came in (one of the orders
\* randomizeElements can return).
InitDeep ==
    /\ InitStore
    /\ maxIPCount = 1
    /\ maxLatency \in MaxLatencies
    /\ ipRegex \in {"", "("}
    /\ allIps = AllIpsOfLen(IpsPerSearch + 1)

NextDeep ==
    \/ tasks = EmptyBag /\ StartScanReset
    \/ \E T \in InFlight : StartScanWith(T, FilteredIps)
    \/ SomeAttempt
    \/ \E T \in InFlight : SetToIdle(T)

SpecDeep == InitDeep /\ [][NextDeep]_vars

\* Only startScan() is ever called, and its reset() marks the calls in
\* flight as stale.
StartScanResetMarking == StartScanResetBeside(MarkStale)

NextStale ==
    \/ StartScanResetMarking
    \/ StartScanRun
    \/ SomeAttempt
    \/ \E T \in InFlight : SetToIdle(T)

SpecStale == Init /\ [][NextStale]_vars

\* The maxLatency settings around the two thresholds of multiply (500 and
\* 1000), over the shorter candidate lists; every attempt of the model
\* (Durations) ends before its deadline.
TierLatencies == {400, 500, 501, 1000, 1001, 2000}

InitTiers ==
    /\ InitStore
    /\ maxIPCount = 1
    /\ maxLatency \in TierLatencies
    /\ ipRegex = ""
    /\ allIps \in {AllIpsOfLen(n) : n \in 0..(MaxLen - 1)}

SpecTiers == InitTiers /\ [][Next]_vars

\* ------------------------------------------------------------------ claims
\* The number of calls of startScan/reStart that await a probe attempt.
ProbingCount == BagCardinality([T \in Probing |-> tasks[T]])

\* C1: in every reachable state the Result Store (validIPs) holds at most
\* maxIPCount entries.
C1_StoreWithinMaxIPCount == Len(validIPs) <= maxIPCount

\* C2: in every reachable state the Result Store is sorted ascending by
\* latency: each entry's latency is at most the next entry's.
C2_StoreSorted ==
    \A k \in 1..(Len(validIPs) - 1) : validIPs[k].latency <= validIPs[k + 1].latency

\* Two entries of different latencies are in the store.
C2_Witness ==
    /\ Len(validIPs) >= 2
    /\ validIPs[1].latency < validIPs[Len(validIPs)].latency

\* C3: stop() called while scanState is scanning moves it to stopping, never
\* straight to idle (a step that changes scanState from scanning and leaves
\* the calls in flight as they are is a step of stop()), and from stopping
\* scanState eventually becomes idle.
C3_StopGoesThroughStopping ==
    /\ [][(scanState = "scanning" /\ scanState' # "scanning" /\ tasks' = tasks)
            => scanState' = "stopping"]_vars
    /\ (scanState = "stopping") ~> (scanState = "idle")

\* stop() was called during a scan: the state is stopping and a probe is
\* still in flight.
C3_Witness == scanState = "stopping" /\ Probing # {}

\* C4: when a scan started by start() and never cancelled has completed
\* (its setToIdle() has run), scanState is idle and the Result Store holds
\* at most maxIPCount entries.
C4_CompletedScanWithinCap ==
    [][\A T \in InFlight :
          SetToIdle(T) => (scanState' = "idle" /\ Len(validIPs') <= maxIPCount)]_vars

\* The call in local state T takes a step out of its last attempt.
LastAttemptOf(T) ==
    /\ T.pc = "probing"
    /\ T.i = MAX_TRIES - 1
    /\ CopiesIn(T, tasks') < CopiesIn(T, tasks)

\* validIPs' is validIPs with `entry` put in at some place.
InsertedInStore(entry) ==
    /\ Len(validIPs') = Len(validIPs) + 1
    /\ \E k \in 1..Len(validIPs') :
          /\ validIPs'[k] = entry
          /\ validIPs = [j \in 1..Len(validIPs) |->
                           IF j < k THEN validIPs'[j] ELSE validIPs'[j + 1]]

\* C5: the last attempt of a candidate inserts the candidate into the Result
\* Store if and only if all 3 attempts counted as successful and the final
\* latency L = floor(elapsed / 3) satisfies 50 < L <= maxLatency; otherwise
\* the store is left as it was.
C5_AdmittedIffThreeOfThreeAndInBand ==
    [][\A T \in InFlight :
          LastAttemptOf(T) =>
            \A counted \in BOOLEAN, d \in Durations :
                AttemptEnds(T, counted, d) =>
                    LET n == T.testCount + (IF counted THEN 1 ELSE 0)
                        L == (T.elapsed + d) \div 3
                        entry == [ip |-> T.ipList[T.pos], latency |-> L]
                    IN  IF n = 3 /\ 50 < L /\ L <= maxLatency
                        THEN InsertedInStore(entry)
                        ELSE validIPs' = validIPs]_vars

\* Candidates of latency 51 and of latency maxLatency = 52 were admitted.
C5_Witness ==
    /\ maxLatency = 52
    /\ \E j, k \in 1..Len(validIPs) :
          validIPs[j].latency = 51 /\ validIPs[k].latency = maxLatency

\* C6: a loop goes on to a next candidate (and increments the attempt
\* counter) only while the Result Store, after the admission of the
\* candidate just probed, holds fewer than maxIPCount entries; and a scan
\* started by start() that runs alone, is not stopped, admits every
\* candidate it probes and has at least maxIPCount candidates returns after
\* exactly maxIPCount candidates, the attempt counter at maxIPCount.
C6_StopsAtMaxIPCount ==
    /\ [][(NoneRunning /\ BagCardinality(tasks') = BagCardinality(tasks)
                       /\ testNo' # testNo)
            => (Len(validIPs') < maxIPCount /\ testNo' = testNo + 1)]_vars
    /\ [](\A T \in InFlight :
            (solo /\ T.pc = "returned" /\ scanState = "scanning"
                  /\ Len(T.ipList) >= maxIPCount /\ Len(validIPs) = T.pos)
            => (T.pos = maxIPCount /\ testNo = maxIPCount))

\* A scan that ran alone returned at the cap with candidates left unprobed.
C6_Witness ==
    \E T \in InFlight :
        /\ solo /\ T.pc = "returned" /\ scanState = "scanning"
        /\ Len(validIPs) = maxIPCount /\ T.pos = maxIPCount
        /\ Len(T.ipList) > maxIPCount

\* C7: in the state right after the reset() of a start() call the Result
\* Store is empty, the attempt counter is 0 and the live-progress fields
\* have their empty values.
C7_ResetDiscardsPartialResults ==
    \A T \in InFlight :
        T.pc = "reset" =>
            /\ validIPs = <<>>
            /\ testNo = 0
            /\ currentIP = "" /\ tryChar = "" /\ currentLatency = 0 /\ color = "red"

\* start() was called while an earlier scan, already at its second
\* candidate, is still probing.
C7_Witness ==
    \E T, U \in InFlight : T.pc = "reset" /\ U.pc = "probing" /\ U.pos = 2

\* C8: at most one probe loop is probing at any time (at most one probe
\* attempt in flight).
C8_AtMostOneScanActive == ProbingCount <= 1

\* C9: once no call of startScan/reStart is in flight any more, whatever
\* ended it, scanState is idle.
C9_EndedScanIsIdle == tasks = EmptyBag => scanState = "idle"

\* C10: one run probes at most 150 candidates, so its attempt counter never
\* exceeds 150.
C10_AtMostIpsPerSearch ==
    /\ testNo <= IpsPerSearch
    /\ \A T \in InFlight : T.pos <= IpsPerSearch

\* C11: stop() called any number of times while scanState is idle and no
\* probe loop is running leaves scanState idle: it never moves it to stopping
\* or scanning (and starts no loop).
C11_StopWhileIdleStaysIdle == idleStops > 0 => NoScanActive

\* stop() was called twice in a row after a scan that had probed a candidate
\* ended.
C11_Witness == idleStops = 2 /\ testNo > 0

\* C12: the deadline after which the in-flight request of an attempt is
\* aborted is multiplier x maxLatency for attempt 0 and 1.2 x multiplier x
\* maxLatency for attempts 1 and 2, the multiplier being 1.5 for maxLatency
\* <= 500, 1.2 for maxLatency <= 1000, else 1.0: that is the timeout the
\* request of the attempt is given, and the timer that aborts the request
\* does not fire before it (in whole ms).
C12_DeadlinePerAttempt ==
    \A T \in Probing :
        LET multiplier == IF maxLatency <= 500 THEN 15
                          ELSE IF maxLatency <= 1000 THEN 12 ELSE 10
            claimed == IF T.i = 0 THEN 10 * multiplier * maxLatency
                       ELSE 12 * multiplier * maxLatency
        IN  /\ RequestTimeout(maxLatency, T.i) = claimed
            /\ \A abortAt \in AbortTimers(maxLatency, T.i) :
                    abortAt \div 100 >= claimed \div 100

\* C13: with an invalid address-filter pattern start() fails the scan start,
\* whatever the candidate list (the empty one included): scanState never
\* becomes scanning and no candidate is probed.
C13_InvalidPatternFailsStart ==
    (ipRegex # "" /\ InvalidPattern(ipRegex)) =>
        (scanState # "scanning" /\ Probing = {} /\ testNo = 0)

\* The call in local state T, awaiting a probe attempt, takes a step.
StepOf(T) == T.pc = "probing" /\ CopiesIn(T, tasks') < CopiesIn(T, tasks)

\* C14: cancellation is observed only between candidates. In a state where
\* stop() was called during a scan and no start() came after it (scanState
\* is stopping), a loop that ends an attempt before the last goes on to the
\* next attempt of the same candidate; a loop that ends the last attempt
\* applies the admission decision (inserts the candidate iff 3 of 3 counted
\* and 50 < L <= maxLatency) and then returns without beginning a further
\* candidate.
C14_CancelObservedBetweenCandidates ==
    [][\A T \in InFlight :
          (scanState = "stopping" /\ StepOf(T)) =>
            IF T.i < MAX_TRIES - 1
            THEN /\ \E U \in BagToSet(tasks') :
                        /\ U.pc = "probing" /\ U.ipList = T.ipList
                        /\ U.pos = T.pos /\ U.i = T.i + 1
                 /\ validIPs' = validIPs /\ testNo' = testNo
            ELSE /\ \A counted \in BOOLEAN, d \in Durations :
                        AttemptEnds(T, counted, d) =>
                            LET n == T.testCount + (IF counted THEN 1 ELSE 0)
                                L == (T.elapsed + d) \div 3
                                entry == [ip |-> T.ipList[T.pos], latency |-> L]
                            IN  IF n = 3 /\ 50 < L /\ L <= maxLatency
                                THEN InsertedInStore(entry)
                                ELSE validIPs' = validIPs
                 /\ testNo' = testNo
                 /\ \E U \in BagToSet(tasks') :
                        /\ U.pc = "returned" /\ U.ipList = T.ipList /\ U.pos = T.pos
                        /\ CopiesIn(U, tasks') > CopiesIn(U, tasks)]_vars

\* A scan that ran alone was stopped while it probed its first candidate:
\* the candidate was admitted all the same, and the loop returned with the
\* store below the cap and a candidate left unprobed.
C14_Witness ==
    /\ scanState = "stopping" /\ solo
    /\ \E T \in InFlight :
          /\ T.pc = "returned" /\ T.pos < Len(T.ipList)
          /\ Len(validIPs) < maxIPCount
          /\ \E k \in 1..Len(validIPs) : validIPs[k].ip = T.ipList[T.pos]

\* The step ends an attempt of the call in local state T and leaves the
\* candidate's tally at n: the next attempt starts with testCount = n, or,
\* after the last attempt, the candidate is inserted iff n = 3 (told only
\* when its final latency L is in the band 50 < L <= maxLatency).
TallyAfter(T, d, n) ==
    IF T.i < MAX_TRIES - 1
    THEN \E U \in BagToSet(tasks') :
            /\ U.pc = "probing" /\ U.ipList = T.ipList /\ U.pos = T.pos
            /\ U.i = T.i + 1 /\ U.testCount = n
    ELSE LET L == (T.elapsed + d) \div 3
         IN  (50 < L /\ L <= maxLatency) =>
                (n = 3 <=> Len(validIPs') = Len(validIPs) + 1)

\* C15 as stated: an attempt adds 1 to the tally exactly when the request
\* completed with a response or failed with a failure that is neither a
\* deadline expiry nor an abort (AbortError); every other failure adds 1.
C15_OnlyAbortNotCounted ==
    [][\A T \in InFlight :
          StepOf(T) =>
            \A outcome \in Outcomes, d \in Durations :
                Attempt(T, outcome, d) =>
                    TallyAfter(T, d, T.testCount
                        + (IF outcome = "response" \/ outcome # "AbortError"
                           THEN 1 ELSE 0))]_vars

\* C15 as amended: an attempt adds 1 to the tally exactly when the request
\* completed with a response or threw an Error whose name is neither
\* AbortError nor TypeError; an AbortError, a TypeError and a thrown value
\* that is no Error never add to it.
C15_AbortAndTypeErrorNotCounted ==
    [][\A T \in InFlight :
          StepOf(T) =>
            \A outcome \in Outcomes, d \in Durations :
                Attempt(T, outcome, d) =>
                    TallyAfter(T, d, T.testCount
                        + (IF outcome \in {"response", "OtherError"}
                           THEN 1 ELSE 0))]_vars

\* A candidate is at its last attempt after one attempt that counted and
\* one that did not.
C15_Witness == \E T \in Probing : T.i = 2 /\ T.testCount = 1

\* C16: at every entry into the scan procedure, through start() or through
\* the search-deeper re-run (reStart), the Result Store is empty and the
\* attempt counter is 0 before the first candidate is probed.
C16_EveryRunStartsEmpty ==
    [][(~FilterThrows /\ (StartScanRun \/ ReStart)) =>
            (validIPs = <<>> /\ testNo = 0)]_vars

\* C17: the in-flight results of an earlier scan are discarded by start():
\* no candidate whose probing began before a start() call is inserted into
\* the Result Store after it (a loop that is stale leaves the store as it
\* is when it ends its candidate).
C17_StartDiscardsInFlight ==
    [][\A T \in InFlight : (StepOf(T) /\ T.stale) => validIPs' = validIPs]_vars

\* C18: when a scan ends, for whatever reason, and scanState returns to idle
\* (the setToIdle() after testIPs), the live-progress fields have their empty
\* values: current candidate "", attempt indicator "", rolling latency 0,
\* color red.
C18_IdleClearsLiveProgress ==
    [][\A T \in InFlight :
          SetToIdle(T) =>
            /\ scanState' = "idle"
            /\ currentIP' = "" /\ tryChar' = ""
            /\ currentLatency' = 0 /\ color' = "red"]_vars

\* C19: whenever scanState is idle (and no start() is part-way through), no
\* probe loop is running: no call of startScan/reStart awaits a probe
\* attempt, so nothing will insert into the store, increment the attempt
\* counter or overwrite the live-progress fields before the next start() or
\* search-deeper call.
C19_IdleMeansNoLoop == (scanState = "idle" /\ NoneRunning) => Probing = {}

\* C20: the step taken by stop() (the only step that leaves the calls in
\* flight and the count of reStart calls as they are) changes only
\* scanState and, when it forces idle, the attempt indicator: the Result
\* Store, the attempt counter, the current candidate, the rolling latency,
\* the color and the settings are unchanged.
C20_StopChangesOnlyScanState ==
    [][(tasks' = tasks /\ restarts' = restarts) =>
            /\ UNCHANGED <<validIPs, testNo, currentIP, currentLatency, color>>
            /\ UNCHANGED <<maxIPCount, maxLatency, ipRegex, allIps>>
            /\ (tryChar' # tryChar => (scanState' = "idle" /\ tryChar' = ""))]_vars

\* stop() was called a second time during a scan that had admitted a
\* candidate and stepped to an attempt after the first: idle was forced and
\* the attempt indicator cleared, the results and the other live-progress
\* fields are still there.
C20_Witness ==
    /\ scanState = "idle" /\ validIPs # <<>>
    /\ \E T \in Probing : T.i > 0 /\ tryChar = "" /\ currentIP = T.ipList[T.pos]

====
